---- MODULE Spec2Model ----
(***************************************************************************)
(* YouTube AI Music Agent (browser extension).                             *)
(*                                                                         *)
(*   content script    src/scripts/youtube-extension/content.js            *)
(*   background script src/unnamed/part_000                                *)
(*   settings popup    src/youtube-extension/popup.js                      *)
(*                                                                         *)
(* Strings are sequences of tokens.  The token " " is white space; every   *)
(* other token is a run of non-blank characters kept whole, so that trim,  *)
(* template concatenation, includes and encodeURIComponent act on a text   *)
(* the way the JavaScript operations act on its characters.                *)
(***************************************************************************)
EXTENDS Naturals, Sequences, FiniteSets, Bags

\* ------------------------------------------------------------------ bounds
MaxCmds == 2      \* commands issued in one run
MaxLen  == 1      \* tokens in a typed text or in a text returned by the model

\* ----------------------------------------------------------------- strings
SP == " "
Tokens == {SP, "jazz"}
Texts == UNION {[1..k -> Tokens] : k \in 0..MaxLen}

RECURSIVE TrimStart(_)
TrimStart(s) == IF s # <<>> /\ Head(s) = SP THEN TrimStart(Tail(s)) ELSE s

RECURSIVE TrimEnd(_)
TrimEnd(s) ==
  IF s # <<>> /\ s[Len(s)] = SP THEN TrimEnd(SubSeq(s, 1, Len(s) - 1)) ELSE s

\* String.prototype.trim
Trim(s) == TrimEnd(TrimStart(s))

\* String.prototype.includes
Includes(s, sub) ==
  \E i \in 1..(Len(s) + 1) :
    /\ i + Len(sub) - 1 <= Len(s)
    /\ SubSeq(s, i, i + Len(sub) - 1) = sub

\* encodeURIComponent: a blank is escaped, the alphanumeric tokens are kept
RECURSIVE encodeURIComponent(_)
encodeURIComponent(s) ==
  IF s = <<>> THEN <<>>
  ELSE <<IF Head(s) = SP THEN "%20" ELSE Head(s)>> \o encodeURIComponent(Tail(s))

\* A property that a JavaScript object does not have
Undefined == <<"undefined">>

\* JavaScript truthiness of a string-valued property
Truthy(s) == s # <<>> /\ s # Undefined

\* --------------------------------------------------------------- variables
VARIABLES
  apiKey,       \* chrome.storage.sync: the stored apiKey, <<>> when none is stored
  location,     \* window.location.href of the document the content script runs in
  boxed,        \* the command box #yt-ai-agent exists in the document
  welcomeTimer, \* the 1000 ms timer of the welcome message is pending
  status,       \* #yt-ai-status: its text and class; stale: it shows the response
                \* to a command that a later command had superseded
  resetTimers,  \* pending 5000 ms timers of updateStatus
  clickTimers,  \* pending 1500 ms timers of searchAndPlayYouTube, oldest first
  pendingNav,   \* the URL assigned to window.location.href and not yet loaded
  issued,       \* number of commands handed to handleCommand so far
  req,          \* the bag of PROCESS_COMMAND exchanges that are under way
  lastUI,       \* "empty": the last Send click or Enter press of this document
                \* found the input blank
  lastClick,    \* the last video clicked by searchAndPlayYouTube
  \* the settings popup
  popupLoaded,  \* the DOMContentLoaded handler has attached the listeners
  popupInput,   \* apiKeyInput.value
  popupStatus,  \* #status: its text and class
  maskTimers,   \* pending 1000 ms timers that mask the input
  statusTimers, \* pending 3000 ms timers of showStatus
  pendingSets,  \* keys of the chrome.storage.sync.set calls awaited, oldest first
  saves,        \* number of runs of the save handler so far
  keyAtOpen,    \* the stored apiKey when the popup was opened
  \* the command box
  display,      \* #yt-ai-content style.display
  toggleText,   \* #yt-ai-toggle textContent
  focus,        \* the element that has the focus, the target of key events
  lastKey       \* the last click or key press on the box and what it met

popupVars == <<popupLoaded, popupInput, popupStatus, maskTimers, statusTimers,
               pendingSets, saves, keyAtOpen>>

boxVars == <<display, toggleText, focus, lastKey>>

vars == <<apiKey, location, boxed, welcomeTimer, status, resetTimers,
          clickTimers, pendingNav, issued, req, lastUI, lastClick,
          popupVars, boxVars>>

docVars == <<location, boxed, welcomeTimer, status, resetTimers,
             clickTimers, pendingNav, lastClick>>

\* ----------------------------------------------------------- settings popup
KeyPrefix == "sk-ant-"
ValidKey == <<KeyPrefix, "api03">>
KeyInputs == {<<>>, <<SP>>, <<"api03">>, ValidKey, <<SP>> \o ValidKey \o <<SP>>}

\* String.prototype.startsWith('sk-ant-')
StartsWithPrefix(s) == s # <<>> /\ Head(s) = KeyPrefix

\* a save handler that stores whatever is not empty
SaveCheckAnyFormat(key) ==
  IF ~Truthy(key) THEN "empty" ELSE "ok"

\* the two early returns of the save handler, on the trimmed input
SaveCheck(key) ==
  IF ~Truthy(key) THEN "empty"
  ELSE IF ~StartsWithPrefix(key) THEN "format"
  ELSE "ok"

\* saveBtn click handler as the page sees it: the trimmed input is stored when
\* it is not empty and starts with the prefix
SaveKey(v) ==
  /\ SaveCheck(Trim(v)) = "ok"
  /\ apiKey' = Trim(v)
  /\ UNCHANGED <<docVars, issued, req, lastUI>>
  /\ UNCHANGED <<popupVars, boxVars>>

\* at most MaxSaves runs of the save handler in one opening of the popup
MaxSaves == 3

OtherKey == <<KeyPrefix, "api04">>
\* the placeholder written over the input one second after a save
MaskText == <<"****************">>
PopupInputs == KeyInputs \cup {OtherKey, <<SP>> \o OtherKey, MaskText}
\* what storage can hold when the popup opens: nothing, or a key saved earlier
StoredKeys == {<<>>, ValidKey}

MsgEnterKey == "Please enter an API key"
MsgBadFormat == "Invalid API key format"
MsgSaved == "Settings saved successfully!"
MsgSaveError == "Error saving settings"
NoPopupStatus == [text |-> "", class |-> <<"status">>]

\* showStatus(message, type)
ShowStatus(message, type) ==
  /\ popupStatus' = [text |-> message, class |-> <<"status", type>>]
  /\ statusTimers' = IF type = "success" THEN statusTimers + 1 ELSE statusTimers

\* DOMContentLoaded: the stored key, when there is one, is put in the input and
\* the listeners are attached
PopupLoad ==
  /\ ~popupLoaded
  /\ popupLoaded' = TRUE
  /\ popupInput' = IF Truthy(apiKey) THEN apiKey ELSE popupInput
  /\ UNCHANGED <<apiKey, popupStatus, maskTimers, statusTimers, pendingSets,
                 saves, keyAtOpen>>
  /\ UNCHANGED <<docVars, issued, req, lastUI, boxVars>>

\* the user edits the input
PopupType(v) ==
  /\ popupInput' = v
  /\ UNCHANGED <<apiKey, popupLoaded, popupStatus, maskTimers, statusTimers,
                 pendingSets, saves, keyAtOpen>>
  /\ UNCHANGED <<docVars, issued, req, lastUI, boxVars>>

\* saveBtn click handler up to its await
SaveClick ==
  /\ popupLoaded
  /\ saves < MaxSaves
  /\ saves' = saves + 1
  /\ LET key == Trim(popupInput) IN
       IF SaveCheck(key) = "empty"
         THEN ShowStatus(MsgEnterKey, "error") /\ UNCHANGED pendingSets
       ELSE IF SaveCheck(key) = "format"
         THEN ShowStatus(MsgBadFormat, "error") /\ UNCHANGED pendingSets
       ELSE /\ pendingSets' = Append(pendingSets, key)
            /\ UNCHANGED <<popupStatus, statusTimers>>
  /\ UNCHANGED <<apiKey, popupLoaded, popupInput, maskTimers, keyAtOpen>>
  /\ UNCHANGED <<docVars, issued, req, lastUI, boxVars>>

\* keypress on the input: Enter clicks the save button
PopupKeypress(key) ==
  /\ popupLoaded
  /\ key = "Enter"
  /\ SaveClick

\* chrome.storage.sync.set resolves: the key is stored, the handler resumes
StorageSetDone ==
  /\ pendingSets # <<>>
  /\ apiKey' = Head(pendingSets)
  /\ pendingSets' = Tail(pendingSets)
  /\ ShowStatus(MsgSaved, "success")
  /\ maskTimers' = maskTimers + 1
  /\ UNCHANGED <<popupLoaded, popupInput, saves, keyAtOpen>>
  /\ UNCHANGED <<docVars, issued, req, lastUI, boxVars>>

\* chrome.storage.sync.set rejects: nothing is stored, the catch block runs
StorageSetFails ==
  /\ pendingSets # <<>>
  /\ pendingSets' = Tail(pendingSets)
  /\ ShowStatus(MsgSaveError, "error")
  /\ UNCHANGED <<apiKey, popupLoaded, popupInput, maskTimers, saves, keyAtOpen>>
  /\ UNCHANGED <<docVars, issued, req, lastUI, boxVars>>

\* the 1000 ms timer of a save
MaskTimerFires ==
  /\ maskTimers > 0
  /\ maskTimers' = maskTimers - 1
  /\ popupInput' = MaskText
  /\ UNCHANGED <<apiKey, popupLoaded, popupStatus, statusTimers, pendingSets,
                 saves, keyAtOpen>>
  /\ UNCHANGED <<docVars, issued, req, lastUI, boxVars>>

\* the 3000 ms timer of showStatus
StatusTimerFires ==
  /\ statusTimers > 0
  /\ statusTimers' = statusTimers - 1
  /\ popupStatus' = [popupStatus EXCEPT !.class = <<"status">>]
  /\ UNCHANGED <<apiKey, popupLoaded, popupInput, maskTimers, pendingSets,
                 saves, keyAtOpen>>
  /\ UNCHANGED <<docVars, issued, req, lastUI, boxVars>>

\* ------------------------------------------------------- background script
ErrNoKey     == <<"API key not set. Click the extension icon to configure.">>
ErrApiFailed == <<"API request failed">>
ErrApiMsg    == <<"message of the endpoint's error body">>
ErrFetch     == <<"Failed to fetch">>
ErrSyntax    == <<"SyntaxError: body is not JSON">>
ErrType      == <<"TypeError: data.content[0] is undefined">>

SearchingFor == "Searching for: "

\* the object processCommand returns on success (lines 72-76)
SuccessResult(searchQuery) ==
  [success |-> TRUE, message |-> <<SearchingFor>> \o searchQuery,
   searchQuery |-> searchQuery, error |-> Undefined]

\* the object processCommand and the listener build from an error
FailureResult(message) ==
  [success |-> FALSE, message |-> Undefined, searchQuery |-> Undefined,
   error |-> message]

NoResult == [success |-> FALSE, message |-> Undefined, searchQuery |-> Undefined,
             error |-> Undefined]

\* What the endpoint can do with a request: reject the fetch (no response at
\* all), or answer with a status that is ok or not and a body that is JSON with
\* content[0].text, JSON with error.message, JSON with neither, or no JSON at
\* all (an answer that is not ok and has content[0].text is handled as one that
\* has neither).
Bodies == {[k |-> "content", text |-> t] : t \in Texts}
          \cup {[k |-> "error", text |-> ErrApiMsg],
                [k |-> "empty", text |-> <<>>],
                [k |-> "notjson", text |-> <<>>]}
NoBody == [k |-> "none", text |-> <<>>]
Outcomes == {[http |-> "reject", body |-> NoBody]}
            \cup [http : {"ok"}, body : Bodies]
            \cup [http : {"notok"}, body : {b \in Bodies : b.k # "content"}]

Return(v) == [threw |-> FALSE, value |-> v, error |-> Undefined]
Throw(e)  == [threw |-> TRUE, value |-> NoResult, error |-> e]

\* the try block of processCommand from the fetch on (lines 35-76)
ProcessCommandTry(o) ==
  IF o.http = "reject" THEN Throw(ErrFetch)
  ELSE IF o.body.k = "notjson" THEN Throw(ErrSyntax)
  ELSE IF o.http = "notok"
    THEN Throw(IF o.body.k = "error" THEN o.body.text ELSE ErrApiFailed)
  ELSE IF o.body.k # "content" THEN Throw(ErrType)
  ELSE Return(SuccessResult(Trim(o.body.text)))

ProcessCommandNoCatch(o) == ProcessCommandTry(o)

\* processCommand from the fetch on: the try block under its catch (lines 78-84)
ProcessCommandSettle(o) ==
  LET r == ProcessCommandTry(o)
  IN  IF r.threw THEN Return(FailureResult(r.error)) ELSE r

\* the listener's .then and .catch: the argument of sendResponse (lines 10-14)
ListenerResponse(r) == IF r.threw THEN FailureResult(r.error) ELSE r.value

\* ----------------------------------------------------- PROCESS_COMMAND exchange
\* The code gives an exchange no identity: it is the promise that handleCommand
\* awaits and the listener's open channel.  An exchange leaves the bag when
\* handleCommand has handled its response, or when its response finds the
\* document that sent it gone.
\* pc: "sent"      chrome.runtime.sendMessage called, listener not yet run
\*     "fetching"  processCommand awaits fetch
\*     "responded" sendResponse called, the response not yet back in handleCommand
\* orphan:     the document that awaits the response is gone
\* superseded: handleCommand was called again while this exchange was awaited
NewReq(command) ==
  [pc |-> "sent", cmd |-> command, text |-> Undefined, result |-> NoResult,
   fetches |-> 0, responses |-> 0, threw |-> FALSE, orphan |-> FALSE,
   superseded |-> FALSE]

Reqs == BagToSet(req)

One(r) == SetToBag({r})

RECURSIVE CopiesOf(_, _)
CopiesOf(B, S) ==
  IF S = {} THEN 0
  ELSE LET r == CHOOSE x \in S : TRUE IN B[r] + CopiesOf(B, S \ {r})

\* awaited by a handleCommand of the current document
Awaited(r) == ~r.orphan

\* handleCommand is called again while r is awaited
Supersede(r) == IF Awaited(r) THEN [r EXCEPT !.superseded = TRUE] ELSE r

\* the bag B with each of its exchanges superseded
SupersedeAll(B) ==
  [x \in {Supersede(r) : r \in DOMAIN B} |->
     CopiesOf(B, {r \in DOMAIN B : Supersede(r) = x})]

\* the document that awaits r goes away
Orphan(r) == [r EXCEPT !.orphan = TRUE, !.superseded = FALSE]

\* the bag B with each of its exchanges orphaned
OrphanAll(B) ==
  [x \in {Orphan(r) : r \in DOMAIN B} |->
     CopiesOf(B, {r \in DOMAIN B : Orphan(r) = x})]

KeyNeverMissing(key) == FALSE

\* processCommand up to the fetch (lines 21-35): TRUE when it returns the
\* 'API key not set' result instead of calling the endpoint
KeyMissing(key) == ~Truthy(key)

\* the listener runs processCommand(request.command) up to its first await of
\* the network (lines 7-35)
BgStart(r) ==
  /\ r.pc = "sent"
  /\ req' = (req (-) One(r)) (+) One(
       IF KeyMissing(apiKey)
       THEN [r EXCEPT !.pc = "responded", !.cmd = <<>>,
                      !.result = ListenerResponse(Return(FailureResult(ErrNoKey))),
                      !.responses = @ + 1]
       ELSE [r EXCEPT !.pc = "fetching", !.cmd = <<>>, !.fetches = @ + 1])
  /\ UNCHANGED <<apiKey, docVars, issued, lastUI>>
  /\ UNCHANGED <<popupVars, boxVars>>

SettledWithRetry(r, o) ==
  LET p == ProcessCommandSettle(o)
  IN  IF (p.threw \/ ~p.value.success) /\ r.fetches < 3
      THEN [r EXCEPT !.fetches = @ + 1]
      ELSE [r EXCEPT !.pc = "responded",
                     !.text = IF o.http = "ok" /\ o.body.k = "content"
                              THEN o.body.text ELSE Undefined,
                     !.result = ListenerResponse(p), !.threw = p.threw,
                     !.responses = @ + 1]

\* the exchange after the fetch settled with o: processCommand finishes and the
\* listener passes what it settled with to sendResponse, once (lines 9-14, 62-84)
Settled(r, o) ==
  LET p == ProcessCommandSettle(o)
  IN  [r EXCEPT !.pc = "responded",
                !.text = IF o.http = "ok" /\ o.body.k = "content"
                         THEN o.body.text ELSE Undefined,
                !.result = ListenerResponse(p), !.threw = p.threw,
                !.responses = @ + 1]

FetchSettles(r, o) ==
  /\ r.pc = "fetching"
  /\ req' = (req (-) One(r)) (+) One(Settled(r, o))
  /\ UNCHANGED <<apiKey, docVars, issued, lastUI>>
  /\ UNCHANGED <<popupVars, boxVars>>

\* ----------------------------------------------------------- content script
HomeUrl       == <<"https://www.youtube.com/">>
WatchPrefix   == "https://www.youtube.com/watch?v="
WatchUrl      == <<WatchPrefix, "id">>
ResultsPrefix == "https://www.youtube.com/results?search_query="

\* searchUrl of searchAndPlayYouTube (line 159)
SearchUrl(query) == <<ResultsPrefix>> \o encodeURIComponent(query)

\* pages the content script can be loaded in to begin with: the home page, or
\* the results of a search the user made by hand
InitialPages == {HomeUrl, SearchUrl(<<"rock">>)}

\* document.querySelector('ytd-video-renderer a#video-title') finds a video:
\* only a results page renders ytd-video-renderer
HasFirstVideo(href) == href # <<>> /\ Head(href) = ResultsPrefix

NoNav   == <<>>
NoClick == [q |-> <<>>, href |-> <<>>]

Ready      == [text |-> <<"Ready - Type a command!">>, type |-> "", stale |-> FALSE]
NoStatus   == [text |-> <<>>, type |-> "", stale |-> FALSE]
Processing == <<"Processing...">>
Welcome    == <<"AI Agent ready! Press K to focus command box.">>

\* updateStatus starts a reset timer for these types (line 146)
StartsReset(type) == type \in {"success", "error"}

\* updateStatus(message, type)
UpdateStatus(message, type, stale) ==
  /\ status' = [text |-> message, type |-> type, stale |-> stale]
  /\ resetTimers' = IF StartsReset(type) THEN resetTimers + 1 ELSE resetTimers

\* the three suggestion buttons (lines 44-46)
Suggestions == {<<"play", SP, "lofi", SP, "hip", SP, "hop">>,
                <<"play", SP, "energetic", SP, "music">>,
                <<"play", SP, "jazz">>}

\* handleCommand up to its await (lines 112-121)
HandleCommand(command) ==
  /\ issued < MaxCmds
  /\ issued' = issued + 1
  /\ UpdateStatus(Processing, "loading", FALSE)
  /\ req' = SupersedeAll(req) (+) One(NewReq(command))
  /\ UNCHANGED <<apiKey, location, boxed, welcomeTimer, clickTimers,
                 pendingNav, lastClick>>

AcceptsAll(command) == TRUE

\* the guard of the Send and Enter handlers: if (command) (lines 75, 85)
Accepts(command) == Truthy(command)

\* the handler of Send and of Enter, the input holding v (lines 73-90); the
\* input is emptied after an accepted command, and v is what it holds at the
\* next click or press
Submit(v) ==
  LET command == Trim(v)
  IN  /\ boxed
      /\ lastUI' = IF Truthy(command) THEN "none" ELSE "empty"
      /\ IF Accepts(command) THEN HandleCommand(command)
         ELSE UNCHANGED <<apiKey, docVars, issued, req>>
      /\ UNCHANGED <<popupVars, boxVars>>

SendClick(v) == Submit(v)

EnterKey(v) == Submit(v)

\* click on a suggestion button (lines 93-99)
SuggestionClick(s) ==
  /\ boxed
  /\ HandleCommand(s)
  /\ lastUI' = "none"
  /\ UNCHANGED <<popupVars, boxVars>>

ErrConnect == <<"Could not establish connection. Receiving end does not exist.">>

\* searchAndPlayYouTube(query) called for command i (lines 155-177): both
\* branches assign searchUrl to window.location.href; then the timer is set
SearchAndPlayYouTube(r, query) ==
  /\ pendingNav' = SearchUrl(query)
  /\ clickTimers' = Append(clickTimers, [q |-> query, stale |-> r.superseded])

HandleResponseThenSearch(r) ==
  /\ r.pc = "responded"
  /\ Awaited(r)
  /\ LET response == r.result
     IN  IF response.success
         THEN /\ UpdateStatus(response.message, "success", r.superseded)
              /\ IF Truthy(response.searchQuery)
                 THEN SearchAndPlayYouTube(r, response.searchQuery)
                 ELSE UNCHANGED <<pendingNav, clickTimers>>
         ELSE /\ UpdateStatus(<<"Error: ">> \o response.error, "error", r.superseded)
              /\ SearchAndPlayYouTube(r, response.error)
  /\ req' = req (-) One(r)
  /\ UNCHANGED <<apiKey, location, boxed, welcomeTimer, issued, lastUI, lastClick>>
  /\ UNCHANGED <<popupVars, boxVars>>

\* handleCommand after its await, the response being that of exchange r
\* (lines 123-132)
HandleResponse(r) ==
  /\ r.pc = "responded"
  /\ Awaited(r)
  /\ LET response == r.result
     IN  IF response.success
         THEN /\ UpdateStatus(response.message, "success", r.superseded)
              /\ IF Truthy(response.searchQuery)
                 THEN SearchAndPlayYouTube(r, response.searchQuery)
                 ELSE UNCHANGED <<pendingNav, clickTimers>>
         ELSE /\ UpdateStatus(<<"Error: ">> \o response.error, "error", r.superseded)
              /\ UNCHANGED <<pendingNav, clickTimers>>
  /\ req' = req (-) One(r)
  /\ UNCHANGED <<apiKey, location, boxed, welcomeTimer, issued, lastUI, lastClick>>
  /\ UNCHANGED <<popupVars, boxVars>>

\* chrome.runtime.sendMessage rejects (no listener can be reached): the catch
\* of handleCommand (lines 133-136)
SendMessageRejects(r) ==
  /\ r.pc = "sent"
  /\ Awaited(r)
  /\ UpdateStatus(<<"Error: ">> \o ErrConnect, "error", FALSE)
  /\ req' = req (-) One(r)
  /\ UNCHANGED <<apiKey, location, boxed, welcomeTimer, clickTimers, pendingNav,
                 issued, lastUI, lastClick>>
  /\ UNCHANGED <<popupVars, boxVars>>

\* sendResponse for a document that is gone: nobody awaits the response
DropResponse(r) ==
  /\ r.pc = "responded"
  /\ ~Awaited(r)
  /\ req' = req (-) One(r)
  /\ UNCHANGED <<apiKey, docVars, issued, lastUI>>
  /\ UNCHANGED <<popupVars, boxVars>>

\* a reset timer of updateStatus fires (lines 147-150)
ResetTimerFires ==
  /\ resetTimers > 0
  /\ resetTimers' = resetTimers - 1
  /\ status' = Ready
  /\ UNCHANGED <<apiKey, location, boxed, welcomeTimer, clickTimers, pendingNav,
                 issued, req, lastUI, lastClick>>
  /\ UNCHANGED <<popupVars, boxVars>>

\* the timer of searchAndPlayYouTube fires in the document that set it (lines
\* 170-176); the click on the title opens the video without leaving the document
ClickTimerFires ==
  /\ clickTimers # <<>>
  /\ clickTimers' = Tail(clickTimers)
  /\ LET t == Head(clickTimers)
     IN  IF HasFirstVideo(location)
         THEN /\ UpdateStatus(<<"Playing: ">> \o Tail(location), "success", t.stale)
              /\ lastClick' = [q |-> t.q, href |-> location]
              /\ location' = WatchUrl
         ELSE UNCHANGED <<status, resetTimers, lastClick, location>>
  /\ UNCHANGED <<apiKey, boxed, welcomeTimer, pendingNav, issued, req, lastUI>>
  /\ UNCHANGED <<popupVars, boxVars>>

\* the page assigned to window.location.href loads: the document, its timers and
\* the handleCommand calls awaiting a response die; a new content script starts
NavCommit ==
  /\ pendingNav # NoNav
  /\ location' = pendingNav
  /\ pendingNav' = NoNav
  /\ boxed' = FALSE
  /\ welcomeTimer' = FALSE
  /\ status' = NoStatus
  /\ resetTimers' = 0
  /\ clickTimers' = <<>>
  /\ lastClick' = NoClick
  /\ lastUI' = "none"
  /\ req' = OrphanAll(req)
  /\ UNCHANGED <<apiKey, issued>>
  /\ UNCHANGED <<popupVars, boxVars>>

\* waitForYouTube resolves, createCommandBox builds the box and the welcome
\* timer is set (lines 7-55, 180-187)
YouTubeReady ==
  /\ ~boxed
  /\ boxed' = TRUE
  /\ status' = Ready
  /\ welcomeTimer' = TRUE
  /\ UNCHANGED <<apiKey, location, resetTimers, clickTimers, pendingNav, issued,
                 req, lastUI, lastClick>>
  /\ UNCHANGED <<popupVars, boxVars>>

\* the welcome timer fires (line 186)
WelcomeFires ==
  /\ welcomeTimer
  /\ welcomeTimer' = FALSE
  /\ UpdateStatus(Welcome, "success", FALSE)
  /\ UNCHANGED <<apiKey, location, boxed, clickTimers, pendingNav, issued, req,
                 lastUI, lastClick>>
  /\ UNCHANGED <<popupVars, boxVars>>

\* ------------------------------------------------------------ specification
\* ------------------------------------------------------------ command box
ArrowDown == "v"
ArrowUp == "^"
NoKey == [key |-> "none", target |-> "page", boxed |-> FALSE]

\* what can have the focus: some element of the page that is not a text
\* field, the command input, YouTube's search input, a textarea
Targets == {"page", "command", "search", "textarea"}
TagName(t) ==
  IF t \in {"command", "search"} THEN "INPUT"
  ELSE IF t = "textarea" THEN "TEXTAREA"
  ELSE "DIV"

Keys == {"Escape", "k", "K", "j"}

\* a shortcut that only spares INPUT elements
TypingTagsInputOnly == {"INPUT"}

\* the tags the K shortcut spares
TypingTags == {"INPUT", "TEXTAREA"}

\* an element that gets display none with the focus in it keeps the focus or
\* loses it to the page, depending on the browser
AfterHide(f) == IF f = "command" THEN {"command", "page"} ELSE {f}

\* click on the toggle button
ToggleClick ==
  /\ boxed
  /\ LET isHidden == display = "none" IN
       /\ display' = IF isHidden THEN "block" ELSE "none"
       /\ toggleText' = IF isHidden THEN ArrowDown ELSE ArrowUp
  /\ focus' = "page"
  /\ lastKey' = [key |-> "toggle", target |-> focus, boxed |-> boxed]
  /\ UNCHANGED <<apiKey, docVars, issued, req, lastUI, popupVars>>

\* keydown on the document: the Escape listener of setupEventListeners, there
\* once the box is, and the K listener of the script
KeyDown(key) ==
  /\ lastKey' = [key |-> key, target |-> focus, boxed |-> boxed]
  /\ IF boxed /\ key = "Escape"
       THEN /\ display' = "none"
            /\ toggleText' = ArrowUp
            /\ focus' \in AfterHide(focus)
       ELSE IF key = "k" /\ TagName(focus) \notin TypingTags /\ boxed
       THEN /\ display' = "block"
            /\ toggleText' = ArrowDown
            /\ focus' = "command"
       ELSE UNCHANGED <<display, toggleText, focus>>
  /\ UNCHANGED <<apiKey, docVars, issued, req, lastUI, popupVars>>

\* the user clicks into an element; the command input can be clicked while it
\* is displayed
FocusMoves(t) ==
  /\ t = "command" => boxed /\ display # "none"
  /\ focus' = t
  /\ lastKey' = [key |-> "click", target |-> focus, boxed |-> boxed]
  /\ UNCHANGED <<display, toggleText>>
  /\ UNCHANGED <<apiKey, docVars, issued, req, lastUI, popupVars>>

\* the page before the content script has run
PageInit ==
  /\ location \in InitialPages
  /\ boxed = FALSE
  /\ welcomeTimer = FALSE
  /\ status = NoStatus
  /\ resetTimers = 0
  /\ clickTimers = <<>>
  /\ pendingNav = NoNav
  /\ issued = 0
  /\ req = EmptyBag
  /\ lastUI = "none"
  /\ lastClick = NoClick

\* the popup as it opens, before DOMContentLoaded
PopupInit ==
  /\ popupLoaded = FALSE
  /\ popupInput = <<>>
  /\ popupStatus = NoPopupStatus
  /\ maskTimers = 0
  /\ statusTimers = 0
  /\ pendingSets = <<>>
  /\ saves = 0
  /\ keyAtOpen = apiKey

\* the box as createCommandBox builds it, and the focus of a fresh page
BoxInit ==
  /\ display = ""
  /\ toggleText = ArrowDown
  /\ focus = "page"
  /\ lastKey = NoKey

Init ==
  /\ apiKey = <<>>
  /\ PageInit
  /\ PopupInit
  /\ BoxInit

Next ==
  \/ \E v \in KeyInputs : SaveKey(v)
  \/ YouTubeReady
  \/ WelcomeFires
  \/ \E v \in Texts : SendClick(v)
  \/ \E v \in Texts : EnterKey(v)
  \/ \E s \in Suggestions : SuggestionClick(s)
  \/ \E r \in Reqs : BgStart(r)
  \/ \E r \in Reqs, o \in Outcomes : FetchSettles(r, o)
  \/ \E r \in Reqs : HandleResponse(r)
  \/ \E r \in Reqs : SendMessageRejects(r)
  \/ \E r \in Reqs : DropResponse(r)
  \/ ResetTimerFires
  \/ ClickTimerFires
  \/ NavCommit

Spec == Init /\ [][Next]_vars

\* The browser runs every handler, timer and page load that is due; when the
\* endpoint answers and what the user does are up to them.
Scheduled ==
  \/ YouTubeReady
  \/ WelcomeFires
  \/ \E r \in Reqs : BgStart(r)
  \/ \E r \in Reqs : HandleResponse(r)
  \/ \E r \in Reqs : DropResponse(r)
  \/ ResetTimerFires
  \/ ClickTimerFires
  \/ NavCommit

FairSpec == Spec /\ WF_vars(Scheduled)

\* One opening of the settings popup.
InitPopup ==
  /\ apiKey \in StoredKeys
  /\ PageInit
  /\ PopupInit
  /\ BoxInit

NextPopup ==
  \/ PopupLoad
  \/ \E v \in PopupInputs : PopupType(v)
  \/ SaveClick
  \/ \E key \in {"Enter"} : PopupKeypress(key)
  \/ StorageSetDone
  \/ StorageSetFails
  \/ MaskTimerFires
  \/ StatusTimerFires

SpecPopup == InitPopup /\ [][NextPopup]_vars

\* The command box under clicks on its toggle and keys pressed in the page.
NextBox ==
  \/ YouTubeReady
  \/ WelcomeFires
  \/ ResetTimerFires
  \/ ToggleClick
  \/ \E key \in Keys : KeyDown(key)
  \/ \E t \in Targets : FocusMoves(t)

SpecBox == Init /\ [][NextBox]_vars

\* ------------------------------------------------------------------ claims
\* exchanges a handleCommand of the current document awaits
InFlight == CopiesOf(req, {r \in Reqs : Awaited(r)})

IsResult(v) ==
  IF v.success
  THEN v.message # Undefined /\ v.searchQuery # Undefined /\ v.error = Undefined
  ELSE v.error # Undefined /\ v.error # <<>>

\* C1: every failure while a command is processed becomes a result
\* {success:false, error}: an exchange gets no response before processCommand
\* has settled and exactly one once it has, that response is a success result or
\* a failure result with its error message, and processCommand never settles by
\* throwing.
C1_FailuresBecomeResults ==
  \A r \in Reqs :
    /\ ~r.threw
    /\ r.pc \in {"sent", "fetching"} => r.responses = 0
    /\ r.pc = "responded" => r.responses = 1 /\ IsResult(r.result)

\* an answer of the endpoint without content[0].text has become a failure result
C1_Witness ==
  \E r \in Reqs :
    /\ r.pc = "responded"
    /\ r.fetches = 1
    /\ r.result = FailureResult(ErrType)

EmptySubmit == lastUI' = "empty" /\ lastUI # "empty"

C3_NoStaleResult ==
  /\ ~status.stale
  /\ \A k \in 1..Len(clickTimers) : ~clickTimers[k].stale

\* C4 (as claimed): at most one command is in flight
C4_SingleInFlight == InFlight <= 1

\* C5 (as claimed): a command in flight eventually gets its result, and the
\* status display eventually leaves 'Processing...'
C5_NeverHangs ==
  /\ (InFlight > 0) ~> (InFlight = 0)
  /\ (status.text = Processing) ~> (status.text # Processing)

\* C6 (as claimed): a video clicked for query q is on the results page of q
C6_ClickOnResultsOfQuery ==
  lastClick # NoClick => lastClick.href = SearchUrl(lastClick.q)

\* handleCommand handles the response of exchange r in this step
Handled(r) ==
  /\ r.pc = "responded"
  /\ Awaited(r)
  /\ req' = req (-) One(r)

\* the endpoint answered exchange r with an ok status and a text
Answered(r) == r.pc = "responded" /\ r.text # Undefined

\* C7 (as claimed): a text t returned with an ok status gives success with
\* searchQuery = trim(t) and a message containing it, and the front end then
\* navigates to the results URL of that searchQuery
C7_EndToEnd ==
  /\ [](\A r \in Reqs : Answered(r) =>
          /\ r.result.success
          /\ r.result.searchQuery = Trim(r.text)
          /\ Includes(r.result.message, r.result.searchQuery))
  /\ [][\A r \in Reqs : Answered(r) /\ Handled(r) =>
          pendingNav' = SearchUrl(Trim(r.text))]_vars

\* C8 (as claimed): the searchQuery of a success result is never blank
C8_SuccessHasQuery ==
  \A r \in Reqs :
    r.pc = "responded" /\ r.result.success => Truthy(r.result.searchQuery)

\* a text from which no action and no parameter can be read: it is blank
Unparsable(t) == ~Truthy(Trim(t))

\* C9 (as claimed): an answer that parses into no action ends in a failure
\* result, and no search is made for it
C9_UnparsedRejected ==
  /\ [](\A r \in Reqs : Answered(r) /\ Unparsable(r.text) => ~r.result.success)
  /\ [][\A r \in Reqs : Answered(r) /\ Unparsable(r.text) /\ Handled(r) =>
          UNCHANGED <<pendingNav, clickTimers>>]_vars

\* C10: the endpoint is called at most twice for one command, and a failed call
\* is not called again but shown: when handleCommand gets a failure result, the
\* status becomes 'Error: ' and its error, nothing is sent and no page is opened.
C10_BoundedCalls ==
  /\ [](\A r \in Reqs : r.fetches <= 2)
  /\ [][\A r \in Reqs : Handled(r) /\ ~r.result.success =>
          /\ status'.type = "error"
          /\ status'.text = <<"Error: ">> \o r.result.error
          /\ UNCHANGED <<pendingNav, clickTimers, issued>>]_vars

\* the error of an answer that was not ok is on display, the endpoint having
\* been called once for the command
C10_Witness ==
  /\ status.type = "error"
  /\ status.text = <<"Error: ">> \o ErrApiMsg
  /\ req = EmptyBag
  /\ issued = 1

\* C11: without a stored key processCommand answers 'API key not set' and
\* calls nothing; the endpoint is called only with a non-empty key in storage
\* (a stored key is never removed, so a call made has its key still stored).
C11_NoKeyNoRequest ==
  \A r \in Reqs :
    /\ r.fetches > 0 => Truthy(apiKey)
    /\ r.pc = "responded" /\ r.fetches = 0 => r.result = FailureResult(ErrNoKey)
    /\ ~Truthy(apiKey) /\ r.pc # "sent" =>
         r.pc = "responded" /\ r.result = FailureResult(ErrNoKey)

\* a command sent with no key stored has been answered, the endpoint not called
C11_Witness ==
  /\ ~Truthy(apiKey)
  /\ \E r \in Reqs :
       r.pc = "responded" /\ r.fetches = 0 /\ r.result = FailureResult(ErrNoKey)

\* the catch of handleCommand runs for exchange r in this step
Rejected(r) ==
  /\ r.pc = "sent"
  /\ Awaited(r)
  /\ req' = req (-) One(r)

\* C12: when the response is a failure, or sendMessage throws, handleCommand
\* only sets the status to 'Error: ' and the reason: the page location, the
\* page being loaded and the pending clicks are as they were.
C12_FailureLeavesPage ==
  [][\A r \in Reqs : (Handled(r) /\ ~r.result.success) \/ Rejected(r) =>
       /\ status'.type = "error"
       /\ Len(status'.text) = 2 /\ Head(status'.text) = "Error: "
       /\ UNCHANGED <<location, pendingNav, clickTimers, lastClick>>]_vars

\* the only command so far has failed for want of a key, and the page is the
\* one the script started in, with nothing being loaded and no click pending
C12_Witness ==
  /\ issued = 1
  /\ req = EmptyBag
  /\ status.text = <<"Error: ">> \o ErrNoKey
  /\ location \in InitialPages
  /\ pendingNav = NoNav
  /\ clickTimers = <<>>

\* C13 (as claimed): while the latest command is awaited and the status shows
\* 'Processing...', no reset timer puts it back to 'Ready - Type a command!'
C13_ProcessingUntilHandled ==
  [][(status.text = Processing /\ \E r \in Reqs : Awaited(r) /\ ~r.superseded)
       => status' # Ready]_vars

\* what the save handler is meant to let into storage
ValidStored(k) ==
  /\ k # <<>>
  /\ Head(k) # SP /\ k[Len(k)] # SP
  /\ Head(k) = KeyPrefix

\* C14: whatever is typed, saved with the button or with Enter, and masked by
\* the timer, the stored apiKey is the one the popup found when it opened or
\* a trimmed, non-empty string starting with 'sk-ant-'; a run of the save
\* handler on an input that is empty or does not start with 'sk-ant-' after
\* trimming shows an error status, stores nothing and starts no storage call.
C14_StoredKeyValid ==
  /\ [](apiKey = keyAtOpen \/ ValidStored(apiKey))
  /\ [][saves' = saves + 1 /\ ~ValidStored(Trim(popupInput)) =>
         /\ popupStatus'.class = <<"status", "error">>
         /\ popupStatus'.text \in {MsgEnterKey, MsgBadFormat}
         /\ apiKey' = apiKey
         /\ pendingSets' = pendingSets]_vars

\* a key was saved, the timer masked the input, and saving the mask was refused
C14_Witness ==
  /\ apiKey = OtherKey
  /\ keyAtOpen # OtherKey
  /\ popupInput = MaskText
  /\ saves >= 2
  /\ popupStatus = [text |-> MsgBadFormat, class |-> <<"status", "error">>]

====
